---- MODULE Spec2Model ----
(***************************************************************************)
(* The alarm-triggered weight adjuster of titiler's ALB stack:             *)
(*   lambda/getting_close_weighting/getting_close_handler.py  (handler)    *)
(*   stack/app_alb.py                                         (wiring)     *)
(* Python dicts are functions whose DOMAIN is the set of keys present, so  *)
(* that a subscript of a missing key is a KeyError and not a value.        *)
(***************************************************************************)
EXTENDS Integers, Sequences, FiniteSets, TLC

\* ---------------------------------------------------------------- bounds
NumProcs == 2
MaxRecords == 2

Procs == 1..NumProcs

\* ------------------------------------------------------------ dictionaries
EmptyDict == [k \in {} |-> "x"]

Bind(f, k, v) == [x \in (DOMAIN f) \cup {k} |-> IF x = k THEN v ELSE f[x]]

NoError == "none"

\* d[k] of a dict: KeyError when the key is absent
GetItem(d, k) ==
    IF k \in DOMAIN d THEN [error |-> NoError, value |-> d[k]]
                      ELSE [error |-> "KeyError"]

\* s[i] of a list, i counted from 0: IndexError when out of range
GetIndex(s, i) ==
    IF i + 1 \in 1..Len(s) THEN [error |-> NoError, value |-> s[i + 1]]
                           ELSE [error |-> "IndexError"]

\* ------------------------------------------------------------- universes
EnvNames == {"LISTENER_ARN", "LAMBDA_TARGET_GROUP_ARN", "ECS_TARGET_GROUP_ARN"}

ARNs == {"L1", "G-fn", "G-ecs"}

Environments == UNION {[S -> ARNs] : S \in SUBSET EnvNames}

Subjects == {"ALARM: high concurrency", "OK: recovered"}

SnsRecord(s) == [Sns |-> [Subject |-> s]]

\* a first record: without Sns, with an Sns that has no Subject, or complete
FirstRecords == {EmptyDict, [Sns |-> EmptyDict]} \cup {SnsRecord(s) : s \in Subjects}

\* what may follow the first record
TailRecords == {SnsRecord("OK: recovered")}

RECURSIVE Tails(_)
Tails(n) ==
    IF n <= 0 THEN {<< >>}
    ELSE LET shorter == Tails(n - 1)
         IN  shorter \cup {Append(t, r) : t \in shorter, r \in TailRecords}

Events ==
    {EmptyDict, [Records |-> << >>]}
    \cup {[Records |-> <<r>> \o t] : r \in FirstRecords, t \in Tails(MaxRecords - 1)}

\* ------------------------------------------------------ listener rules
TargetGroup(arn, w) == [TargetGroupArn |-> arn, Weight |-> w]

Forward(tgs) ==
    << [Type |-> "forward", Order |-> 1, ForwardConfig |-> [TargetGroups |-> tgs]] >>

ListenerState(acts) == [Port |-> 80, Protocol |-> "HTTP", DefaultActions |-> acts]

\* rules a listener may hold before the handler runs, or be given by others
OtherStates ==
    { ListenerState(Forward(<<TargetGroup("G-fn", 100), TargetGroup("G-ecs", 0)>>)),
      ListenerState(Forward(<<TargetGroup("G-fn", 50), TargetGroup("G-ecs", 50)>>)) }

\* ------------------------------------------------------------------ state
VARIABLES
    environ,     \* os.environ of the weight-adjuster function
    listeners,   \* the load balancer's listeners: arn -> port, protocol, default actions
    pc,          \* per invocation: "idle", "l25", "done", "failed"
    event,       \* per invocation: the event it was invoked with
    locals,      \* per invocation: the local variables bound so far
    error,       \* per invocation: the exception the invocation ended with
    requests,    \* per invocation: the modify_listener requests it has issued
    raised,      \* per invocation: what its last modify_listener call raised
    alarmState,  \* the concurrent-executions alarm: "OK" or "ALARM"
    breaches,    \* consecutive evaluation periods over the threshold
    topic,       \* messages published to the overwhelmed topic, not yet delivered
    fired        \* number of times the alarm has gone into ALARM

procVars == <<pc, event, locals, error, requests, raised>>
stackVars == <<alarmState, breaches, topic, fired>>
vars == <<environ, listeners, pc, event, locals, error, requests, raised,
          alarmState, breaches, topic, fired>>

\* ------------------------------------------------------------ the handler
\* os.environ.get(name) in place of os.environ[name]: None when absent
EnvLookup_get(env, name) ==
    IF name \in DOMAIN env THEN [error |-> NoError, value |-> env[name]]
                           ELSE [error |-> NoError, value |-> "None"]

\* os.environ[name]
EnvLookup(env, name) == GetItem(env, name)

\* event["Records"][0]["Sns"]["Subject"]
Message(ev) ==
    LET recs == GetItem(ev, "Records") IN
    IF recs.error # NoError THEN recs ELSE
    LET rec == GetIndex(recs.value, 0) IN
    IF rec.error # NoError THEN rec ELSE
    LET sns == GetItem(rec.value, "Sns") IN
    IF sns.error # NoError THEN sns ELSE
    GetItem(sns.value, "Subject")

\* the environment read before the event is looked at
RunToCall_env_first(ev, env) ==
    LET a == GetItem(env, "LISTENER_ARN") IN
    IF a.error # NoError THEN [locals |-> EmptyDict, error |-> a.error] ELSE
    LET f1 == Bind(EmptyDict, "listener_arn", a.value)
        b == GetItem(env, "LAMBDA_TARGET_GROUP_ARN")
    IN
    IF b.error # NoError THEN [locals |-> f1, error |-> b.error] ELSE
    LET f2 == Bind(f1, "lambda_target_group_arn", b.value)
        c == GetItem(env, "ECS_TARGET_GROUP_ARN")
    IN
    IF c.error # NoError THEN [locals |-> f2, error |-> c.error] ELSE
    LET f3 == Bind(f2, "ecs_target_group_arn", c.value)
        m == Message(ev)
    IN
    IF m.error # NoError THEN [locals |-> f3, error |-> m.error] ELSE
    [locals |-> Bind(f3, "message", m.value), error |-> NoError]

\* handler, from its entry up to the call of direct_traffic_to_ecs:
\* the local variables bound and the exception raised, if any
RunToCall(ev, env) ==
    LET m == Message(ev) IN
    IF m.error # NoError THEN [locals |-> EmptyDict, error |-> m.error] ELSE
    LET f1 == Bind(EmptyDict, "message", m.value)
        a == EnvLookup(env, "LISTENER_ARN")
    IN
    IF a.error # NoError THEN [locals |-> f1, error |-> a.error] ELSE
    LET f2 == Bind(f1, "listener_arn", a.value)
        b == EnvLookup(env, "LAMBDA_TARGET_GROUP_ARN")
    IN
    IF b.error # NoError THEN [locals |-> f2, error |-> b.error] ELSE
    LET f3 == Bind(f2, "lambda_target_group_arn", b.value)
        c == EnvLookup(env, "ECS_TARGET_GROUP_ARN")
    IN
    IF c.error # NoError THEN [locals |-> f3, error |-> c.error] ELSE
    [locals |-> Bind(f3, "ecs_target_group_arn", c.value), error |-> NoError]

\* the two weights exchanged
direct_traffic_inverted(listener_arn, lambda_target_group_arn, ecs_target_group_arn) ==
    [ ListenerArn |-> listener_arn,
      Port |-> 80,
      Protocol |-> "HTTP",
      DefaultActions |->
          Forward(<< TargetGroup(lambda_target_group_arn, 100),
                     TargetGroup(ecs_target_group_arn, 0) >>) ]

\* the two target groups exchanged
direct_traffic_swapped(listener_arn, lambda_target_group_arn, ecs_target_group_arn) ==
    [ ListenerArn |-> listener_arn,
      Port |-> 80,
      Protocol |-> "HTTP",
      DefaultActions |->
          Forward(<< TargetGroup(ecs_target_group_arn, 0),
                     TargetGroup(lambda_target_group_arn, 100) >>) ]

\* the listener taken from the wrong argument
direct_traffic_wrong_listener(listener_arn, lambda_target_group_arn, ecs_target_group_arn) ==
    [ ListenerArn |-> ecs_target_group_arn,
      Port |-> 80,
      Protocol |-> "HTTP",
      DefaultActions |->
          Forward(<< TargetGroup(lambda_target_group_arn, 0),
                     TargetGroup(ecs_target_group_arn, 100) >>) ]

\* the container weight raised by 50 from what the listener holds, not set to 100
direct_traffic_gradual(listener_arn, lambda_target_group_arn, ecs_target_group_arn) ==
    LET held == IF listener_arn \in DOMAIN listeners
                THEN listeners[listener_arn].DefaultActions[1].ForwardConfig.TargetGroups
                ELSE << >>
        now == IF \E i \in DOMAIN held : held[i].TargetGroupArn = ecs_target_group_arn
               THEN held[CHOOSE i \in DOMAIN held :
                            held[i].TargetGroupArn = ecs_target_group_arn].Weight
               ELSE 0
        w == IF now + 50 > 100 THEN 100 ELSE now + 50
    IN
    [ ListenerArn |-> listener_arn,
      Port |-> 80,
      Protocol |-> "HTTP",
      DefaultActions |->
          Forward(<< TargetGroup(lambda_target_group_arn, 100 - w),
                     TargetGroup(ecs_target_group_arn, w) >>) ]

\* the request direct_traffic_to_ecs passes to elb_client.modify_listener
direct_traffic_to_ecs(listener_arn, lambda_target_group_arn, ecs_target_group_arn) ==
    [ ListenerArn |-> listener_arn,
      Port |-> 80,
      Protocol |-> "HTTP",
      DefaultActions |->
          Forward(<< TargetGroup(lambda_target_group_arn, 0),
                     TargetGroup(ecs_target_group_arn, 100) >>) ]

\* what elb_client.modify_listener may do with a request: succeed, or raise
Outcomes(req) ==
    IF req.ListenerArn \in DOMAIN listeners THEN {NoError, "ClientError"}
                                            ELSE {"ClientError"}

\* the listeners after a modify_listener call that succeeded
modify_listener(ls, req) ==
    [ls EXCEPT ![req.ListenerArn] =
        [Port |-> req.Port, Protocol |-> req.Protocol,
         DefaultActions |-> req.DefaultActions]]

\* handler is invoked with event ev and runs lines 18-23
handler_entry(p, ev) ==
    /\ pc[p] = "idle"
    /\ LET r == RunToCall(ev, environ) IN
          /\ event' = [event EXCEPT ![p] = ev]
          /\ locals' = [locals EXCEPT ![p] = r.locals]
          /\ error' = [error EXCEPT ![p] = r.error]
          /\ pc' = [pc EXCEPT ![p] = IF r.error = NoError THEN "l25" ELSE "failed"]
    /\ UNCHANGED <<environ, listeners, requests, raised>>

\* the call made a second time when the first one raised
handler_call_retry(p) ==
    /\ pc[p] = "l25"
    /\ LET req == [ ListenerArn |-> locals[p]["listener_arn"],
                    Port |-> 80,
                    Protocol |-> "HTTP",
                    DefaultActions |->
                        Forward(<< TargetGroup(locals[p]["lambda_target_group_arn"], 0),
                                   TargetGroup(locals[p]["ecs_target_group_arn"], 100) >>) ]
       IN \E first \in Outcomes(req) :
            \E outcome \in (IF first = NoError THEN {NoError} ELSE Outcomes(req)) :
              /\ requests' = [requests EXCEPT ![p] =
                                 IF first = NoError THEN Append(@, req)
                                                    ELSE Append(Append(@, req), req)]
              /\ raised' = [raised EXCEPT ![p] = outcome]
              /\ error' = [error EXCEPT ![p] = outcome]
              /\ pc' = [pc EXCEPT ![p] = IF outcome = NoError THEN "done" ELSE "failed"]
              /\ listeners' = IF outcome = NoError THEN modify_listener(listeners, req)
                                                   ELSE listeners
    /\ UNCHANGED <<environ, event, locals>>
    /\ UNCHANGED stackVars

\* the error of the call caught and dropped
handler_call_swallow(p) ==
    /\ pc[p] = "l25"
    /\ LET req == [ ListenerArn |-> locals[p]["listener_arn"],
                    Port |-> 80,
                    Protocol |-> "HTTP",
                    DefaultActions |->
                        Forward(<< TargetGroup(locals[p]["lambda_target_group_arn"], 0),
                                   TargetGroup(locals[p]["ecs_target_group_arn"], 100) >>) ]
       IN \E outcome \in Outcomes(req) :
            /\ requests' = [requests EXCEPT ![p] = Append(@, req)]
            /\ raised' = [raised EXCEPT ![p] = outcome]
            /\ error' = [error EXCEPT ![p] = NoError]
            /\ pc' = [pc EXCEPT ![p] = "done"]
            /\ listeners' = IF outcome = NoError THEN modify_listener(listeners, req)
                                                 ELSE listeners
    /\ UNCHANGED <<environ, event, locals>>
    /\ UNCHANGED stackVars

\* one call for each record of the event, all of them succeeding or the first raising
handler_call_per_record(p) ==
    /\ pc[p] = "l25"
    /\ LET req == [ ListenerArn |-> locals[p]["listener_arn"],
                    Port |-> 80,
                    Protocol |-> "HTTP",
                    DefaultActions |->
                        Forward(<< TargetGroup(locals[p]["lambda_target_group_arn"], 0),
                                   TargetGroup(locals[p]["ecs_target_group_arn"], 100) >>) ]
       IN \E outcome \in Outcomes(req) :
            /\ requests' = [requests EXCEPT ![p] =
                               IF outcome = NoError
                               THEN @ \o [i \in 1..Len(event[p]["Records"]) |-> req]
                               ELSE Append(@, req)]
            /\ raised' = [raised EXCEPT ![p] = outcome]
            /\ error' = [error EXCEPT ![p] = outcome]
            /\ pc' = [pc EXCEPT ![p] = IF outcome = NoError THEN "done" ELSE "failed"]
            /\ listeners' = IF outcome = NoError THEN modify_listener(listeners, req)
                                                 ELSE listeners
    /\ UNCHANGED <<environ, event, locals>>
    /\ UNCHANGED stackVars

\* line 25: direct_traffic_to_ecs(...), one modify_listener call, its error not caught
handler_call(p) ==
    /\ pc[p] = "l25"
    /\ LET req == direct_traffic_to_ecs(locals[p]["listener_arn"],
                                        locals[p]["lambda_target_group_arn"],
                                        locals[p]["ecs_target_group_arn"])
       IN \E outcome \in Outcomes(req) :
            /\ requests' = [requests EXCEPT ![p] = Append(@, req)]
            /\ raised' = [raised EXCEPT ![p] = outcome]
            /\ error' = [error EXCEPT ![p] = outcome]
            /\ pc' = [pc EXCEPT ![p] = IF outcome = NoError THEN "done" ELSE "failed"]
            /\ listeners' = IF outcome = NoError THEN modify_listener(listeners, req)
                                                 ELSE listeners
    /\ UNCHANGED <<environ, event, locals>>
    /\ UNCHANGED stackVars

\* an invocation of the function with an arbitrary event
Invoke(p, ev) == handler_entry(p, ev) /\ UNCHANGED stackVars

\* some process other than the handler rewrites a listener's rule
OtherProcess(l, s) ==
    /\ l \in DOMAIN listeners
    /\ listeners[l] # s
    /\ listeners' = [listeners EXCEPT ![l] = s]
    /\ UNCHANGED <<environ, procVars, stackVars>>

\* ------------------------------------------------------------- the stack
\* app_alb.py: the resources titilerStack declares, by the names it gives them
application_listener == [listener_arn |-> "L1", port |-> 80]

ecs_target_group ==
    [target_group_arn |-> "G-ecs", listener |-> application_listener,
     targets |-> {"fargate_service"}]

lambda_target_group ==
    [target_group_arn |-> "G-fn", listener |-> application_listener,
     targets |-> {"titiler_lambda_function"}]

titiler_overwhelmed_topic == "overwhelmed-topic"

action == [topic |-> titiler_overwhelmed_topic]

titiler_lambda_invocations_metric ==
    [function |-> "titiler_lambda_function", name |-> "ConcurrentExecutions"]

evaluation_periods == 3

alarm ==
    [metric |-> titiler_lambda_invocations_metric,
     evaluation_periods |-> evaluation_periods,
     alarm_actions |-> {action}]

\* the two target groups' identifiers under each other's name
function_environment_swapped ==
    [LISTENER_ARN |-> application_listener.listener_arn,
     LAMBDA_TARGET_GROUP_ARN |-> ecs_target_group.target_group_arn,
     ECS_TARGET_GROUP_ARN |-> lambda_target_group.target_group_arn]

\* environment=dict(...) of the weight-adjuster function
function_environment ==
    [LISTENER_ARN |-> application_listener.listener_arn,
     LAMBDA_TARGET_GROUP_ARN |-> lambda_target_group.target_group_arn,
     ECS_TARGET_GROUP_ARN |-> ecs_target_group.target_group_arn]

getting_close_weighting_function ==
    [handler |-> "getting_close_handler.handler",
     environment |-> function_environment,
     event_sources |-> {titiler_overwhelmed_topic}]

\* the topics the alarm publishes to that the function is subscribed to
Deliveries ==
    {a.topic : a \in alarm.alarm_actions} \cap getting_close_weighting_function.event_sources

\* the event the notification service hands to a subscribed function
SnsEvent(subject) == [Records |-> << SnsRecord(subject) >>]

\* an evaluation period in which the metric is over the threshold; the alarm
\* goes into ALARM after evaluation_periods of them in a row and then runs
\* its alarm actions, each publishing one message
MetricBreach ==
    /\ fired < NumProcs
    /\ breaches' = IF breaches < alarm.evaluation_periods THEN breaches + 1 ELSE breaches
    /\ IF alarmState = "OK" /\ breaches' = alarm.evaluation_periods
       THEN /\ alarmState' = "ALARM"
            /\ fired' = fired + 1
            /\ topic' = topic + Cardinality(alarm.alarm_actions)
       ELSE UNCHANGED <<alarmState, fired, topic>>
    /\ UNCHANGED <<environ, listeners, procVars>>

\* an evaluation period in which the metric is under the threshold
MetricRecover ==
    /\ breaches > 0
    /\ breaches' = 0
    /\ alarmState' = "OK"
    /\ UNCHANGED <<fired, topic>>
    /\ UNCHANGED <<environ, listeners, procVars>>

\* the topic delivers a message to the subscribed function
SnsDeliver(p) ==
    /\ topic > 0
    /\ titiler_overwhelmed_topic \in Deliveries
    /\ topic' = topic - 1
    /\ handler_entry(p, SnsEvent("ALARM: high concurrency"))
    /\ UNCHANGED <<alarmState, breaches, fired>>

\* ------------------------------------------------------- specifications
ProcInit ==
    /\ pc = [p \in Procs |-> "idle"]
    /\ event = [p \in Procs |-> EmptyDict]
    /\ locals = [p \in Procs |-> EmptyDict]
    /\ error = [p \in Procs |-> NoError]
    /\ requests = [p \in Procs |-> << >>]
    /\ raised = [p \in Procs |-> NoError]

StackVarsInit ==
    /\ alarmState = "OK"
    /\ breaches = 0
    /\ topic = 0
    /\ fired = 0

Init ==
    /\ environ \in Environments
    /\ listeners \in [{"L1"} -> OtherStates]
    /\ ProcInit
    /\ StackVarsInit

HandlerNext ==
    \/ \E p \in Procs, ev \in Events : Invoke(p, ev)
    \/ \E p \in Procs : handler_call(p)

Next ==
    \/ HandlerNext
    \/ \E l \in ARNs, s \in OtherStates : OtherProcess(l, s)

\* the handler and other processes acting on the listener
Spec == Init /\ [][Next]_vars

\* the handler alone
HandlerSpec == Init /\ [][HandlerNext]_vars

StackInit ==
    /\ environ = getting_close_weighting_function.environment
    /\ listeners \in [{application_listener.listener_arn} -> OtherStates]
    /\ ProcInit
    /\ StackVarsInit

StackNext ==
    \/ MetricBreach
    \/ MetricRecover
    \/ \E p \in Procs : SnsDeliver(p)
    \/ \E p \in Procs : handler_call(p)
    \/ \E l \in ARNs, s \in OtherStates : OtherProcess(l, s)

\* the deployed stack: the alarm, the topic, the function and the listener
StackSpec == StackInit /\ [][StackNext]_vars

\* the notification service delivers what is published, and an invocation runs on
StackFairSpec ==
    /\ StackSpec
    /\ \A p \in Procs : WF_vars(SnsDeliver(p)) /\ WF_vars(handler_call(p))

\* ------------------------------------------------------------ properties
\* the event has a first record with an Sns.Subject field
ValidEvent(ev) ==
    /\ "Records" \in DOMAIN ev
    /\ Len(ev["Records"]) >= 1
    /\ "Sns" \in DOMAIN ev["Records"][1]
    /\ "Subject" \in DOMAIN ev["Records"][1]["Sns"]

FullEnv == EnvNames \subseteq DOMAIN environ

Invoked(p) == pc[p] # "idle"

Ended(p) == pc[p] \in {"done", "failed"}

\* the target groups of the single forward action of a list of actions
Groups(acts) == acts[1].ForwardConfig.TargetGroups

\* a rule that is one forward action over two entries: the function group
\* of the environment at weight 0, then its container group at weight 100
AllToEcs(acts) ==
    /\ Len(acts) = 1
    /\ acts[1].Type = "forward"
    /\ Len(Groups(acts)) = 2
    /\ Groups(acts)[1].TargetGroupArn = environ["LAMBDA_TARGET_GROUP_ARN"]
    /\ Groups(acts)[1].Weight = 0
    /\ Groups(acts)[2].TargetGroupArn = environ["ECS_TARGET_GROUP_ARN"]
    /\ Groups(acts)[2].Weight = 100

\* the rule of the listener the environment names
Held == listeners[environ["LISTENER_ARN"]].DefaultActions

Reachable == FullEnv /\ environ["LISTENER_ARN"] \in DOMAIN listeners

\* C1: an invocation with a valid event and the three variables set never
\* issues more than one modify_listener call, has issued exactly one when it
\* ends, and that call gives the container group weight 100 and the function
\* group weight 0.
C1_OneCall ==
    \A p \in Procs :
        (Invoked(p) /\ ValidEvent(event[p]) /\ FullEnv) =>
            /\ Len(requests[p]) <= 1
            /\ Ended(p) => Len(requests[p]) = 1
            /\ \A i \in DOMAIN requests[p] :
                 LET tgs == Groups(requests[p][i].DefaultActions) IN
                 /\ \E j \in DOMAIN tgs :
                      /\ tgs[j].TargetGroupArn = environ["ECS_TARGET_GROUP_ARN"]
                      /\ tgs[j].Weight = 100
                 /\ \E j \in DOMAIN tgs :
                      /\ tgs[j].TargetGroupArn = environ["LAMBDA_TARGET_GROUP_ARN"]
                      /\ tgs[j].Weight = 0

C1_Witness ==
    \E p \in Procs :
        /\ pc[p] = "failed"
        /\ ValidEvent(event[p])
        /\ FullEnv
        /\ Len(requests[p]) = 1
        /\ \E q \in Procs : pc[q] = "done" /\ Len(requests[q]) = 1

\* C2: every request issued names the listener of LISTENER_ARN, port 80,
\* protocol HTTP, and one forward action over exactly two entries, in this
\* order: LAMBDA_TARGET_GROUP_ARN at weight 0, ECS_TARGET_GROUP_ARN at 100.
C2_RequestFields ==
    \A p \in Procs : \A i \in DOMAIN requests[p] :
        LET r == requests[p][i] IN
        /\ FullEnv
        /\ r.ListenerArn = environ["LISTENER_ARN"]
        /\ r.Port = 80
        /\ r.Protocol = "HTTP"
        /\ AllToEcs(r.DefaultActions)

C2_Witness ==
    \E p \in Procs :
        /\ requests[p] # << >>
        /\ FullEnv
        /\ environ["LISTENER_ARN"] = "L1"
        /\ environ["LAMBDA_TARGET_GROUP_ARN"] = environ["ECS_TARGET_GROUP_ARN"]

\* C3: with a valid event and one or more of the three variables absent, the
\* invocation ends in a KeyError having made no modify_listener call, and
\* the step in which it runs leaves every listener as it was.
C3_MissingEnv ==
    /\ [](\A p \in Procs :
            (Invoked(p) /\ ValidEvent(event[p]) /\ ~FullEnv) =>
                /\ pc[p] = "failed"
                /\ error[p] = "KeyError"
                /\ requests[p] = << >>)
    /\ [][\A p \in Procs :
            (pc[p] = "idle" /\ pc'[p] # "idle" /\ ValidEvent(event'[p]) /\ ~FullEnv) =>
                listeners' = listeners]_vars

C3_Witness ==
    \E p \in Procs :
        /\ pc[p] = "failed"
        /\ ValidEvent(event[p])
        /\ DOMAIN environ = EnvNames \ {"ECS_TARGET_GROUP_ARN"}
        /\ requests[p] = << >>

\* C4: an invocation whose modify_listener call raised has ended with that
\* same error and has issued exactly one call.
C4_ErrorPropagates ==
    \A p \in Procs :
        raised[p] # NoError =>
            /\ pc[p] = "failed"
            /\ error[p] = raised[p]
            /\ Len(requests[p]) = 1

C4_Witness ==
    \E p \in Procs :
        /\ raised[p] = "ClientError"
        /\ pc[p] = "failed"
        /\ Reachable

\* C5: any two invocations that issued a request issued the same one,
\* whatever their events, and an invocation issues one call however many
\* records its event has.
C5_EventIndependent ==
    /\ \A p, q \in Procs :
         (requests[p] # << >> /\ requests[q] # << >>) => requests[p] = requests[q]
    /\ \A p \in Procs :
         (Ended(p) /\ requests[p] # << >>) => Len(requests[p]) = 1

C5_Witness ==
    \E p, q \in Procs :
        /\ pc[p] = "done"
        /\ pc[q] = "done"
        /\ Len(event[p]["Records"]) = 1
        /\ Len(event[q]["Records"]) > 1
        /\ event[p]["Records"][1] # event[q]["Records"][1]

\* C6: with the handler alone acting, a successful invocation that follows
\* a successful one leaves the listeners exactly as the earlier one left them.
C6_Idempotent ==
    [][\A p \in Procs :
         (pc[p] = "l25" /\ pc'[p] = "done" /\ \E q \in Procs : pc[q] = "done") =>
             listeners' = listeners]_vars

C6_Witness ==
    \E p, q \in Procs :
        /\ p # q
        /\ pc[p] = "done"
        /\ pc[q] = "done"

\* C7: with the handler alone acting, in every interleaving the listener
\* holds the function-0 / container-100 rule once an invocation has
\* succeeded, and so when all have; before that it holds the rule it
\* started with, never anything else.
C7_Converges ==
    /\ (\E p \in Procs : pc[p] = "done") => AllToEcs(Held)
    /\ \A l \in DOMAIN listeners :
         \/ listeners[l] \in OtherStates
         \/ Reachable /\ l = environ["LISTENER_ARN"] /\ AllToEcs(listeners[l].DefaultActions)

C7_Witness ==
    /\ \A p \in Procs : pc[p] = "done"
    /\ \E p, q \in Procs : event[p] # event[q]

\* C8: a handler step never takes the listener off the function-0 /
\* container-100 rule, and every successful handler call puts it on that
\* rule, whatever another process had made of it.
C8_StaysOnEcs ==
    [][/\ (pc' # pc /\ Reachable /\ AllToEcs(Held)) =>
             AllToEcs(listeners'[environ["LISTENER_ARN"]].DefaultActions)
       /\ \A p \in Procs :
             (pc[p] = "l25" /\ pc'[p] = "done") =>
                 AllToEcs(listeners'[environ["LISTENER_ARN"]].DefaultActions)]_vars

C8_Witness ==
    /\ Reachable
    /\ \E p, q \in Procs :
         /\ pc[p] = "done"
         /\ pc[q] = "l25"
         /\ ~AllToEcs(Held)

\* C9: in the deployed stack the alarm is on the titiler function's
\* ConcurrentExecutions metric and publishes to the topic the weight
\* adjuster is subscribed to; the function's environment names the listener
\* of the two groups, the function's group and the container service's group
\* under the names the handler reads; every firing of the alarm is one
\* message, pending or delivered to one invocation; no invocation ends in a
\* KeyError, each issues at most one call, for that listener and those
\* groups; and every firing leads to a call.
C9_Wiring ==
    /\ alarm.metric.name = "ConcurrentExecutions"
    /\ alarm.metric.function \in lambda_target_group.targets
    /\ {a.topic : a \in alarm.alarm_actions} = getting_close_weighting_function.event_sources
    /\ FullEnv
    /\ ecs_target_group.listener.listener_arn = environ["LISTENER_ARN"]
    /\ lambda_target_group.listener.listener_arn = environ["LISTENER_ARN"]
    /\ lambda_target_group.target_group_arn = environ["LAMBDA_TARGET_GROUP_ARN"]
    /\ ecs_target_group.target_group_arn = environ["ECS_TARGET_GROUP_ARN"]
    /\ "fargate_service" \in ecs_target_group.targets
    /\ fired = topic + Cardinality({p \in Procs : Invoked(p)})
    /\ \A p \in Procs :
         /\ error[p] # "KeyError"
         /\ Len(requests[p]) <= 1
         /\ Ended(p) => Len(requests[p]) = 1
         /\ \A i \in DOMAIN requests[p] :
              /\ requests[p][i].ListenerArn = application_listener.listener_arn
              /\ Groups(requests[p][i].DefaultActions) =
                     << [TargetGroupArn |-> lambda_target_group.target_group_arn, Weight |-> 0],
                        [TargetGroupArn |-> ecs_target_group.target_group_arn, Weight |-> 100] >>

C9_AlarmToCall ==
    /\ []C9_Wiring
    /\ \A n \in 1..NumProcs :
         (fired >= n) ~> (Cardinality({p \in Procs : Len(requests[p]) = 1}) >= n)

C9_Witness ==
    /\ alarmState = "ALARM"
    /\ fired >= 1
    /\ \E p \in Procs :
         /\ pc[p] = "done"
         /\ event[p] = SnsEvent("ALARM: high concurrency")
         /\ Len(requests[p]) = 1

\* C10: with a malformed event (no Records key, an empty Records list, a
\* first record without Sns, an Sns without Subject) the invocation ends in
\* a lookup error (IndexError for the empty list, KeyError otherwise) with
\* no variable of the environment read and no call made, and the step in
\* which it runs leaves every listener as it was.
C10_MalformedEvent ==
    /\ [](\A p \in Procs :
            (Invoked(p) /\ ~ValidEvent(event[p])) =>
                /\ pc[p] = "failed"
                /\ error[p] = IF "Records" \in DOMAIN event[p] /\ event[p]["Records"] = << >>
                              THEN "IndexError" ELSE "KeyError"
                /\ locals[p] = EmptyDict
                /\ requests[p] = << >>)
    /\ [][\A p \in Procs :
            (pc[p] = "idle" /\ pc'[p] # "idle" /\ ~ValidEvent(event'[p])) =>
                listeners' = listeners]_vars

C10_Witness ==
    /\ FullEnv
    /\ \E p, q \in Procs :
         /\ pc[p] = "failed"
         /\ error[p] = "IndexError"
         /\ pc[q] = "failed"
         /\ error[q] = "KeyError"
         /\ "Records" \in DOMAIN event[q]
         /\ requests[q] = << >>
====
